---- MODULE Spec2Model ----
(***************************************************************************)
(* A model of paranoia's validation engine (internal/validate/validate.go) *)
(* and of its certificate scanner (internal/certificate/certificate.go).   *)
(*                                                                         *)
(* Spec      : NewValidator / Validate / Result.IsPass                     *)
(* ScanSpec  : FindCertificates, its parser goroutines and the context     *)
(* RevalidateSpec : one Validator serving two Validate calls               *)
(* OpenerSpec     : openerForFile, the readers of its opener, its clean-up *)
(*                                                                         *)
(* Strings that the code parses (fingerprints) are sequences of one-       *)
(* character strings; digests are sequences of bytes (0..255) of the real  *)
(* widths (20 and 32). Error values are strings; a nil error is NoErr.     *)
(***************************************************************************)
EXTENDS Integers, Sequences, FiniteSets, Bags, TLC

VARIABLES
    pc,             \* validate package: "start" | "built" | "rejected" | "validated" | "checked"
    config,         \* the Config handed to NewValidator
    permissiveMode, \* the flag handed to NewValidator
    v,              \* the Validator NewValidator returned (meaningful unless pc is start/rejected)
    nvErr,          \* the error NewValidator returned
    founds,         \* the argument of the last Validate call
    result,         \* the Result of the last Validate call
    vErr,           \* the error of the last Validate call
    pass,           \* the outcome of the last IsPass call on result
    spc,            \* FindCertificates: where the orchestrator stands
    hdrs,           \* FindCertificates: how many TAR headers tz.Next has returned
    header,         \* FindCertificates: the current header
    handle,         \* openerForFile: what backs the current entry ("none" | "mem" | "tmp")
    tempFiles,      \* the temporary files on disk, named by the number of their entry
    acquired,       \* the entries for which openerForFile returned a handle
    released,       \* the entries whose oCleanup has been invoked, one item per invocation
    parsed,         \* FindCertificates: the shared accumulator
    errs,           \* FindCertificates: the current entry's error messages
    wg,             \* FindCertificates: the WaitGroup's counter
    lock,           \* FindCertificates: the parser holding the mutex, or NoParser
    task,           \* the goroutine of each parser: its position and what its Find returned
    produced,       \* history: the bags of Found and Partial items the Find calls have returned
    ctxErr,         \* ctx.Err()
    crashed,        \* a panic has escaped a goroutine: the process is gone
    retParsed,      \* FindCertificates: the returned *ParsedCertificates, <<>> for nil
    retErr,         \* FindCertificates: the returned error
    opc,            \* openerForFile and its results: "start" | "opened" | "released"
    osize,          \* header.Size of the entry openerForFile was called for
    content,        \* the bytes the entry's reader delivers
    ff,             \* the in-memory buffer, <<>> when there is none
    tmp,            \* the temporary file's bytes on disk, <<>> when there is no file
    offsets,        \* the read offset of each bytes.Reader / os.File that exists
    readers         \* what each opener() call returned, and what its holder did with it

vvars == <<pc, config, permissiveMode, v, nvErr, founds, result, vErr, pass>>

svars == <<spc, hdrs, header, handle, tempFiles, acquired, released, parsed, errs, wg, lock, task,
           produced, ctxErr, crashed, retParsed, retErr>>

ovars == <<opc, osize, content, ff, tmp, offsets, readers>>

vars == <<vvars, svars, ovars>>

----------------------------------------------------------------------------
(* Bounds of the model *)

\* most entries a policy holds, over its three lists together
MaxEntries == 2
\* most found certificates handed to one Validate call
MaxFound == 2
\* most headers the TAR reader returns before the archive ends
MaxHeaders == 2
\* most bytes an entry's content has
MaxContent == 2
\* most opener() calls made for one entry
MaxReaders == 2

(* Program constants *)

\* width of a SHA-1 digest in bytes
Sha1Size == 20
\* width of a SHA-256 digest in bytes
Sha256Size == 32
\* an entry larger than this many bytes is spooled to a temporary file
MemoryLimit == 1073741824

NoErr == "<nil>"

----------------------------------------------------------------------------
(* Small helpers *)

Range(s) == {s[i] : i \in 1..Len(s)}

SeqsUpTo(S, n) == UNION {[1..k -> S] : k \in 0..n}

Repeat(x, n) == [i \in 1..n |-> x]

\* the items of a sequence, each with the number of times it occurs
RECURSIVE SeqToBag(_)
SeqToBag(s) == IF s = <<>> THEN EmptyBag ELSE SetToBag({Head(s)}) (+) SeqToBag(Tail(s))

----------------------------------------------------------------------------
(* internal/util/checksum: hexadecimal fingerprints *)

LowerHex == <<"0","1","2","3","4","5","6","7","8","9","a","b","c","d","e","f">>
UpperHex == <<"0","1","2","3","4","5","6","7","8","9","A","B","C","D","E","F">>

HexChars == Range(LowerHex) \cup Range(UpperHex)

\* the value of each hexadecimal digit, either case
HexDigit == [c \in HexChars |-> (CHOOSE i \in 1..16 : LowerHex[i] = c \/ UpperHex[i] = c) - 1]

IsHexChar(c) == c \in HexChars

HexVal(c) == HexDigit[c]

\* hex.DecodeString: an even number of hexadecimal characters, either case
DecodeOk(s) == Len(s) % 2 = 0 /\ \A i \in 1..Len(s) : IsHexChar(s[i])

DecodeString(s) == [i \in 1..(Len(s) \div 2) |-> 16 * HexVal(s[2*i - 1]) + HexVal(s[2*i])]

\* hex.EncodeToString (lower case), and its upper-case spelling
EncodeToString(b) == [i \in 1..(2 * Len(b)) |->
                        IF i % 2 = 1 THEN LowerHex[(b[(i + 1) \div 2] \div 16) + 1]
                                     ELSE LowerHex[(b[i \div 2] % 16) + 1]]

\* the upper-case spelling of each lower-case hexadecimal digit
UpperOf == [c \in Range(LowerHex) |-> UpperHex[CHOOSE k \in 1..16 : LowerHex[k] = c]]

ToUpper(s) == [i \in 1..Len(s) |-> IF s[i] \in DOMAIN UpperOf THEN UpperOf[s[i]] ELSE s[i]]

ParseSum(s, size) ==
    IF Len(s) # 2 * size \/ ~DecodeOk(s)
    THEN [err |-> IF DecodeOk(s) THEN "checksum has wrong length" ELSE "encoding/hex: invalid string",
          sum |-> Repeat(0, size)]
    ELSE [err |-> NoErr, sum |-> DecodeString(s)]

ParseSHA1(s) == ParseSum(s, Sha1Size)

ParseSHA256(s) == ParseSum(s, Sha256Size)

----------------------------------------------------------------------------
(* internal/certificate: certificates a scan can find *)

Certs == {1, 2}

\* every certificate has both digests, computed from the same DER bytes
Sha1Of(k) == [i \in 1..Sha1Size |-> (171 + 17 * (k - 1) + i) % 256]

Sha256Of(k) == [i \in 1..Sha256Size |-> (205 + 17 * (k - 1) + i) % 256]

FoundBy(parser, k, loc) == [Location |-> loc, Parser |-> parser, Certificate |-> k,
                            FingerprintSha1 |-> Sha1Of(k), FingerprintSha256 |-> Sha256Of(k)]

Found(k, loc) == FoundBy("pem", k, loc)

FoundPool == {Found(k, "/etc/cert.pem") : k \in Certs} \cup {Found(1, "/usr/ca.pem")}

----------------------------------------------------------------------------
(* internal/validate: the policy document *)

CertificateEntry(sha1, sha256) == [Fingerprints |-> [Sha1 |-> sha1, Sha256 |-> sha256]]

\* a SHA-256 string with a character that is no hexadecimal digit
BadHex256 == [i \in 1..(2 * Sha256Size) |-> IF i = 1 THEN "g" ELSE "0"]

\* a SHA-1 string one byte short
Short1 == SubSeq(EncodeToString(Sha1Of(1)), 1, 2 * Sha1Size - 2)

EntryPool ==
    { CertificateEntry(<<>>, EncodeToString(Sha256Of(1))),
      CertificateEntry(<<>>, ToUpper(EncodeToString(Sha256Of(1)))),
      CertificateEntry(EncodeToString(Sha1Of(1)), <<>>),
      CertificateEntry(ToUpper(EncodeToString(Sha1Of(2))), <<>>),
      CertificateEntry(EncodeToString(Sha1Of(2)), EncodeToString(Sha256Of(1))),
      CertificateEntry(<<>>, BadHex256),
      CertificateEntry(Short1, <<>>),
      CertificateEntry(<<>>, <<>>) }

\* the policies of at most MaxEntries entries: a sequence cut into three lists
Configs ==
    { [Allow |-> SubSeq(s, 1, i), Forbid |-> SubSeq(s, i + 1, j), Require |-> SubSeq(s, j + 1, Len(s))] :
        <<s, i, j>> \in { t \in SeqsUpTo(EntryPool, MaxEntries) \X (0..MaxEntries) \X (0..MaxEntries) :
                            t[2] <= t[3] /\ t[3] <= Len(t[1]) } }

\* the shape check: every entry names a fingerprint. Fingerprints are not
\* parsed here, and no further rule is applied, so that every policy a
\* stricter check would accept is among those modelled.
IsConfigValid(c) ==
    \A e \in Range(c.Allow) \cup Range(c.Forbid) \cup Range(c.Require) :
        e.Fingerprints.Sha1 # <<>> \/ e.Fingerprints.Sha256 # <<>>

----------------------------------------------------------------------------
(* internal/validate: NewValidator *)

EmptyMap == [x \in {} |-> x]

MapPut(m, k, val) == [x \in (DOMAIN m) \cup {k} |-> IF x = k THEN val ELSE m[x]]

Wrap(err, msg) == msg \o ": " \o err

\* Go indexes a list from 0
Position(i) == ToString(i - 1)

NewEmptyValidator(c, permissive) ==
    [config |-> c, permissiveMode |-> permissive,
     allowSHA1 |-> {}, allowSHA256 |-> {},
     forbidSHA1 |-> EmptyMap, forbidSHA256 |-> EmptyMap,
     required |-> c.Require]

\* one iteration of "for i, allowed := range config.Allow": the validator after it, or an error
AllowEntry(val, allowed, i, listName) ==
    IF allowed.Fingerprints.Sha256 # <<>>
    THEN LET p == ParseSHA256(allowed.Fingerprints.Sha256) IN
         IF p.err # NoErr
         THEN [v |-> val, err |-> Wrap(p.err, "entry at position " \o Position(i) \o " in " \o listName \o " list had invalid SHA256")]
         ELSE [v |-> [val EXCEPT !.allowSHA256 = @ \cup {p.sum}], err |-> NoErr]
    ELSE IF allowed.Fingerprints.Sha1 # <<>>
    THEN LET p == ParseSHA1(allowed.Fingerprints.Sha1) IN
         IF p.err # NoErr
         THEN [v |-> val, err |-> Wrap(p.err, "entry at position " \o Position(i) \o " in " \o listName \o " list had invalid SHA1")]
         ELSE [v |-> [val EXCEPT !.allowSHA1 = @ \cup {p.sum}], err |-> NoErr]
    ELSE [v |-> val, err |-> NoErr]

RECURSIVE AllowLoop(_, _, _)
AllowLoop(val, list, i) ==
    IF i > Len(list) THEN [v |-> val, err |-> NoErr]
    ELSE LET r == AllowEntry(val, list[i], i, "allow") IN
         IF r.err # NoErr THEN r ELSE AllowLoop(r.v, list, i + 1)

\* a faulty variant: the Require list is not added to the allow-sets
RequireLoopSkipped(val, list, i) == [v |-> val, err |-> NoErr]

RECURSIVE RequireLoop(_, _, _)
RequireLoop(val, list, i) ==
    IF i > Len(list) THEN [v |-> val, err |-> NoErr]
    ELSE LET r == AllowEntry(val, list[i], i, "require") IN
         IF r.err # NoErr THEN r ELSE RequireLoop(r.v, list, i + 1)

\* a faulty variant: an entry with both fingerprints is indexed by its SHA-1 as well
ForbidEntryBoth(val, forbidden, i) ==
    LET p256 == ParseSHA256(forbidden.Fingerprints.Sha256)
        p1 == ParseSHA1(forbidden.Fingerprints.Sha1)
        with256 == IF forbidden.Fingerprints.Sha256 # <<>>
                   THEN [val EXCEPT !.forbidSHA256 = MapPut(@, p256.sum, forbidden)] ELSE val
        with1 == IF forbidden.Fingerprints.Sha1 # <<>>
                 THEN [with256 EXCEPT !.forbidSHA1 = MapPut(@, p1.sum, forbidden)] ELSE with256
    IN IF forbidden.Fingerprints.Sha256 # <<>> /\ p256.err # NoErr
       THEN [v |-> val, err |-> Wrap(p256.err, "entry at position " \o Position(i) \o " in forbid list had invalid SHA256")]
       ELSE IF forbidden.Fingerprints.Sha1 # <<>> /\ p1.err # NoErr
       THEN [v |-> val, err |-> Wrap(p1.err, "entry at position " \o Position(i) \o " in forbid list had invalid SHA1")]
       ELSE [v |-> with1, err |-> NoErr]

ForbidEntry(val, forbidden, i) ==
    IF forbidden.Fingerprints.Sha256 # <<>>
    THEN LET p == ParseSHA256(forbidden.Fingerprints.Sha256) IN
         IF p.err # NoErr
         THEN [v |-> val, err |-> Wrap(p.err, "entry at position " \o Position(i) \o " in forbid list had invalid SHA256")]
         ELSE [v |-> [val EXCEPT !.forbidSHA256 = MapPut(@, p.sum, forbidden)], err |-> NoErr]
    ELSE IF forbidden.Fingerprints.Sha1 # <<>>
    THEN LET p == ParseSHA1(forbidden.Fingerprints.Sha1) IN
         IF p.err # NoErr
         THEN [v |-> val, err |-> Wrap(p.err, "entry at position " \o Position(i) \o " in forbid list had invalid SHA1")]
         ELSE [v |-> [val EXCEPT !.forbidSHA1 = MapPut(@, p.sum, forbidden)], err |-> NoErr]
    ELSE [v |-> val, err |-> NoErr]

RECURSIVE ForbidLoop(_, _, _)
ForbidLoop(val, list, i) ==
    IF i > Len(list) THEN [v |-> val, err |-> NoErr]
    ELSE LET r == ForbidEntry(val, list[i], i) IN
         IF r.err # NoErr THEN r ELSE ForbidLoop(r.v, list, i + 1)

\* a faulty variant: the allow-sets are filled in permissive mode too
AllowSetsAnyMode(val, c, permissive) ==
    LET a == AllowLoop(val, c.Allow, 1) IN
    IF a.err # NoErr /\ ~permissive THEN a
    ELSE IF ~permissive THEN RequireLoop(a.v, c.Require, 1)
    ELSE [v |-> a.v, err |-> NoErr]

\* the allow-sets are filled from Allow and Require in strict mode only
AllowSets(val, c, permissive) ==
    IF ~permissive
    THEN LET a == AllowLoop(val, c.Allow, 1) IN
         IF a.err # NoErr THEN a ELSE RequireLoop(a.v, c.Require, 1)
    ELSE [v |-> val, err |-> NoErr]

\* returns (*Validator, error): the pointer is <<>> (nil) or <<validator>>
NewValidator(c, permissive) ==
    IF ~IsConfigValid(c) THEN [v |-> <<>>, err |-> "invalid validator config"]
    ELSE LET a == AllowSets(NewEmptyValidator(c, permissive), c, permissive) IN
         IF a.err # NoErr THEN [v |-> <<>>, err |-> a.err]
         ELSE LET f == ForbidLoop(a.v, c.Forbid, 1) IN
              IF f.err # NoErr THEN [v |-> <<>>, err |-> f.err]
              ELSE [v |-> <<f.v>>, err |-> NoErr]

----------------------------------------------------------------------------
(* internal/validate: Validate and IsPass *)

EmptyResult == [NotAllowedCertificates |-> <<>>, ForbiddenCertificates |-> <<>>, RequiredButAbsent |-> <<>>]

IsAllowed(val, cert) ==
    IF cert.FingerprintSha1 \in val.allowSHA1 THEN TRUE
    ELSE IF cert.FingerprintSha256 \in val.allowSHA256 THEN TRUE
    ELSE FALSE

\* a faulty variant: only the SHA-1 map is consulted
IsForbiddenSha1Only(val, cert) ==
    IF cert.FingerprintSha1 \in DOMAIN val.forbidSHA1
    THEN [b |-> TRUE, ce |-> <<val.forbidSHA1[cert.FingerprintSha1]>>]
    ELSE [b |-> FALSE, ce |-> <<>>]

\* returns (bool, *CertificateEntry)
IsForbidden(val, cert) ==
    IF cert.FingerprintSha1 \in DOMAIN val.forbidSHA1
    THEN [b |-> TRUE, ce |-> <<val.forbidSHA1[cert.FingerprintSha1]>>]
    ELSE IF cert.FingerprintSha256 \in DOMAIN val.forbidSHA256
    THEN [b |-> TRUE, ce |-> <<val.forbidSHA256[cert.FingerprintSha256]>>]
    ELSE [b |-> FALSE, ce |-> <<>>]

\* the body of "for _, cert := range founds": st holds result and the observed checksums
FoundStep(val, st, cert) ==
    LET notAllowed == IF ~val.permissiveMode /\ ~IsAllowed(val, cert)
                      THEN Append(st.result.NotAllowedCertificates, cert)
                      ELSE st.result.NotAllowedCertificates
        f == IsForbidden(val, cert)
        forbidden == IF f.b
                     THEN Append(st.result.ForbiddenCertificates, [Certificate |-> cert, Entry |-> f.ce[1]])
                     ELSE st.result.ForbiddenCertificates
    IN [result |-> [st.result EXCEPT !.NotAllowedCertificates = notAllowed,
                                     !.ForbiddenCertificates = forbidden],
        sha1checksums |-> st.sha1checksums \cup {cert.FingerprintSha1},
        sha256checksums |-> st.sha256checksums \cup {cert.FingerprintSha256}]

RECURSIVE FoundLoop(_, _, _, _)
FoundLoop(val, st, fs, i) ==
    IF i > Len(fs) THEN st ELSE FoundLoop(val, FoundStep(val, st, fs[i]), fs, i + 1)

\* a faulty variant: a fingerprint that does not parse ends the pass with what was collected so far
RECURSIVE RequiredLoopPartial(_, _, _)
RequiredLoopPartial(val, st, i) ==
    IF i > Len(val.required) THEN [result |-> st.result, err |-> NoErr]
    ELSE LET required == val.required[i] IN
         IF required.Fingerprints.Sha256 # <<>>
         THEN LET p == ParseSHA256(required.Fingerprints.Sha256) IN
              IF p.err # NoErr THEN [result |-> st.result, err |-> p.err]
              ELSE IF p.sum \notin st.sha256checksums
                   THEN RequiredLoopPartial(val, [st EXCEPT !.result.RequiredButAbsent = Append(@, required)], i + 1)
                   ELSE RequiredLoopPartial(val, st, i + 1)
         ELSE IF required.Fingerprints.Sha1 # <<>>
         THEN LET p == ParseSHA1(required.Fingerprints.Sha1) IN
              IF p.err # NoErr THEN [result |-> st.result, err |-> p.err]
              ELSE IF p.sum \notin st.sha1checksums
                   THEN RequiredLoopPartial(val, [st EXCEPT !.result.RequiredButAbsent = Append(@, required)], i + 1)
                   ELSE RequiredLoopPartial(val, st, i + 1)
         ELSE RequiredLoopPartial(val, st, i + 1)

\* "Check for missing required certificates": returns (Result, error)
RECURSIVE RequiredLoop(_, _, _)
RequiredLoop(val, st, i) ==
    IF i > Len(val.required) THEN [result |-> st.result, err |-> NoErr]
    ELSE LET required == val.required[i] IN
         IF required.Fingerprints.Sha256 # <<>>
         THEN LET p == ParseSHA256(required.Fingerprints.Sha256) IN
              IF p.err # NoErr THEN [result |-> EmptyResult, err |-> p.err]
              ELSE IF p.sum \notin st.sha256checksums
                   THEN RequiredLoop(val, [st EXCEPT !.result.RequiredButAbsent = Append(@, required)], i + 1)
                   ELSE RequiredLoop(val, st, i + 1)
         ELSE IF required.Fingerprints.Sha1 # <<>>
         THEN LET p == ParseSHA1(required.Fingerprints.Sha1) IN
              IF p.err # NoErr THEN [result |-> EmptyResult, err |-> p.err]
              ELSE IF p.sum \notin st.sha1checksums
                   THEN RequiredLoop(val, [st EXCEPT !.result.RequiredButAbsent = Append(@, required)], i + 1)
                   ELSE RequiredLoop(val, st, i + 1)
         ELSE RequiredLoop(val, st, i + 1)

\* a faulty variant: the first found certificate is skipped
ValidateFromSecond(val, fs) ==
    RequiredLoop(val,
                 FoundLoop(val, [result |-> EmptyResult, sha1checksums |-> {}, sha256checksums |-> {}], fs, 2),
                 1)

Validate(val, fs) ==
    RequiredLoop(val,
                 FoundLoop(val, [result |-> EmptyResult, sha1checksums |-> {}, sha256checksums |-> {}], fs, 1),
                 1)

\* a faulty variant: the required-but-absent list is forgotten
IsPassNoRequired(r) ==
    r # <<>> /\ Len(r[1].ForbiddenCertificates) = 0 /\ Len(r[1].NotAllowedCertificates) = 0

\* r is a *Result: <<>> (nil) or <<result>>
IsPass(r) ==
    r # <<>> /\ Len(r[1].ForbiddenCertificates) = 0 /\ Len(r[1].NotAllowedCertificates) = 0
             /\ Len(r[1].RequiredButAbsent) = 0

----------------------------------------------------------------------------
(* The validate package as a state machine *)

ZeroConfig == [Allow |-> <<>>, Forbid |-> <<>>, Require |-> <<>>]

ValidateInit ==
    /\ pc = "start"
    /\ config = ZeroConfig
    /\ permissiveMode = FALSE
    /\ v = <<>>
    /\ nvErr = NoErr
    /\ founds = <<>>
    /\ result = EmptyResult
    /\ vErr = NoErr
    /\ pass = FALSE

\* a caller builds a Validator from a policy
CallNewValidator ==
    /\ pc = "start"
    /\ \E c \in Configs, permissive \in BOOLEAN :
         LET r == NewValidator(c, permissive) IN
         /\ config' = c
         /\ permissiveMode' = permissive
         /\ v' = r.v
         /\ nvErr' = r.err
         /\ pc' = IF r.err = NoErr THEN "built" ELSE "rejected"
    /\ UNCHANGED <<founds, result, vErr, pass, svars, ovars>>

\* a faulty variant: Validate records the fingerprints it saw in the allow-set
CallValidateRemembering ==
    /\ pc = "built"
    /\ \E fs \in SeqsUpTo(FoundPool, MaxFound) :
         LET r == Validate(v[1], fs) IN
         /\ founds' = fs
         /\ result' = r.result
         /\ vErr' = r.err
         /\ v' = <<[v[1] EXCEPT !.allowSHA1 = @ \cup {fs[i].FingerprintSha1 : i \in 1..Len(fs)}]>>
    /\ pc' = "validated"
    /\ pass' = FALSE
    /\ UNCHANGED <<config, permissiveMode, nvErr, svars, ovars>>

\* a caller validates a scan's findings
CallValidate ==
    /\ pc = "built"
    /\ \E fs \in SeqsUpTo(FoundPool, MaxFound) :
         LET r == Validate(v[1], fs) IN
         /\ founds' = fs
         /\ result' = r.result
         /\ vErr' = r.err
    /\ pc' = "validated"
    /\ pass' = FALSE
    /\ UNCHANGED <<config, permissiveMode, v, nvErr, svars, ovars>>

\* the caller validates another list of findings with the same Validator;
\* the repeated calls are explored for lists of at most one finding
CallValidateAgain ==
    /\ pc = "validated" /\ Len(founds) <= 1
    /\ \E fs \in SeqsUpTo(FoundPool, 1) :
         LET r == Validate(v[1], fs) IN
         /\ founds' = fs
         /\ result' = r.result
         /\ vErr' = r.err
    /\ pc' = "revalidated"
    /\ pass' = FALSE
    /\ UNCHANGED <<config, permissiveMode, v, nvErr, svars, ovars>>

\* the caller asks the Result whether the image passes
CallIsPass ==
    /\ pc = "validated"
    /\ pass' = IsPass(<<result>>)
    /\ pc' = "checked"
    /\ UNCHANGED <<config, permissiveMode, v, nvErr, founds, result, vErr, svars, ovars>>

----------------------------------------------------------------------------
(* internal/certificate: what a scan reads and what parsers return *)

TypeReg == "0"

TypeDir == "5"

\* the headers a TAR stream can hold: a file at the in-memory limit, a file
\* one byte over it, and a directory
HeaderPool ==
    { [Typeflag |-> TypeReg, Name |-> "etc/cert.pem", Size |-> MemoryLimit],
      [Typeflag |-> TypeReg, Name |-> "layer.bin", Size |-> MemoryLimit + 1],
      [Typeflag |-> TypeDir, Name |-> "etc", Size |-> 0] }

NoHeader == [Typeflag |-> "", Name |-> "", Size |-> 0]

\* the registered parsers; the scanner is written for any number of them
parsers == <<"pem", "der">>

NoParser == ""

Partial(parser, loc) == [Location |-> loc, Parser |-> parser, Reason |-> "x509: malformed certificate"]

EmptyParsed == [Found |-> <<>>, Partials |-> <<>>]

\* filepath.Join("/", header.Name)
JoinRoot(name) == "/" \o name

\* what parser.Find can return for a file: (*ParsedCertificates, error), the
\* pointer being <<>> (nil) or <<parsed>>
FindResults(p, path) ==
    { [res |-> <<EmptyParsed>>, err |-> NoErr],
      [res |-> <<[Found |-> <<FoundBy(p, 1, path)>>, Partials |-> <<Partial(p, path)>>]>>, err |-> NoErr],
      [res |-> <<[Found |-> <<>>, Partials |-> <<Partial(p, path)>>]>>, err |-> p \o ": unexpected EOF"],
      [res |-> <<>>, err |-> p \o ": open failed"] }

appendParsed(p, q) == [Found |-> p.Found \o q.Found, Partials |-> p.Partials \o q.Partials]

\* strings.Join(errs, sep)
RECURSIVE Join(_, _)
Join(list, sep) ==
    IF Len(list) = 0 THEN ""
    ELSE IF Len(list) = 1 THEN list[1]
    ELSE list[1] \o sep \o Join(Tail(list), sep)

ParserError(list) == "parser error finding certificates: " \o Join(list, "; ")

IdleTask == [st |-> "idle", res |-> <<>>, err |-> NoErr]

----------------------------------------------------------------------------
(* internal/certificate: FindCertificates as a state machine *)

ScanInit ==
    /\ spc = "next"
    /\ hdrs = 0
    /\ header = NoHeader
    /\ handle = "none"
    /\ tempFiles = {}
    /\ acquired = <<>>
    /\ released = <<>>
    /\ parsed = EmptyParsed
    /\ errs = <<>>
    /\ wg = 0
    /\ lock = NoParser
    /\ task = [p \in Range(parsers) |-> IdleTask]
    /\ produced = [Found |-> EmptyBag, Partials |-> EmptyBag]
    /\ ctxErr = NoErr
    /\ crashed = FALSE
    /\ retParsed = <<>>
    /\ retErr = NoErr

Return(p, e) ==
    /\ spc' = "returned"
    /\ retParsed' = p
    /\ retErr' = e

\* a faulty variant: the end of the archive hands back no result
NextEOFNilResult ==
    /\ spc = "next" /\ ~crashed
    /\ Return(<<>>, NoErr)
    /\ UNCHANGED <<hdrs, header, handle, tempFiles, acquired, released, parsed, errs, wg, lock, task,
                   ctxErr, crashed, produced, vvars, ovars>>

\* tz.Next() reports the end of the archive: break, return parsed, nil
NextEOF ==
    /\ spc = "next" /\ ~crashed
    /\ Return(<<parsed>>, NoErr)
    /\ UNCHANGED <<hdrs, header, handle, tempFiles, acquired, released, parsed, errs, wg, lock, task,
                   ctxErr, crashed, produced, vvars, ovars>>

\* tz.Next() fails: return nil, err
NextError ==
    /\ spc = "next" /\ ~crashed
    /\ Return(<<>>, "archive/tar: invalid tar header")
    /\ UNCHANGED <<hdrs, header, handle, tempFiles, acquired, released, parsed, errs, wg, lock, task,
                   ctxErr, crashed, produced, vvars, ovars>>

\* tz.Next() returns a header; anything but a regular file is skipped
NextHeader ==
    /\ spc = "next" /\ ~crashed
    /\ hdrs < MaxHeaders
    /\ \E h \in HeaderPool :
         /\ header' = h
         /\ spc' = IF h.Typeflag # TypeReg THEN "next" ELSE "open"
    /\ hdrs' = hdrs + 1
    /\ UNCHANGED <<handle, tempFiles, acquired, released, parsed, errs, wg, lock, task,
                   ctxErr, crashed, retParsed, retErr, produced, vvars, ovars>>

\* openerForFile succeeds: a temporary file above the limit, a buffer otherwise
OpenerForFile ==
    /\ spc = "open" /\ ~crashed
    /\ IF header.Size > MemoryLimit
       THEN handle' = "tmp" /\ tempFiles' = tempFiles \cup {hdrs}
       ELSE handle' = "mem" /\ tempFiles' = tempFiles
    /\ acquired' = Append(acquired, hdrs)
    /\ spc' = "spawn"
    /\ UNCHANGED <<hdrs, header, released, parsed, errs, wg, lock, task,
                   ctxErr, crashed, retParsed, retErr, produced, vvars, ovars>>

\* openerForFile fails: FindCertificates returns nil, err. A temporary file
\* that was already created (the copy or the close failed) stays on disk.
OpenerForFileFails ==
    /\ spc = "open" /\ ~crashed
    /\ IF header.Size > MemoryLimit
       THEN \E step \in {"create", "copy", "close"} :
              /\ tempFiles' = IF step = "create" THEN tempFiles ELSE tempFiles \cup {hdrs}
              /\ Return(<<>>, CASE step = "create" -> "failed to create temporary file: no space left on device"
                                [] step = "copy" -> "failed to write image file to temporary file: unexpected EOF"
                                [] step = "close" -> "failed to close temporary file: input/output error")
       ELSE /\ tempFiles' = tempFiles
            /\ Return(<<>>, "failed to read image file: unexpected EOF")
    /\ UNCHANGED <<hdrs, header, handle, acquired, released, parsed, errs, wg, lock, task,
                   ctxErr, crashed, produced, vvars, ovars>>

\* var wg, lock, errs; wg.Add(len(parsers)); one goroutine per parser
RunParsers ==
    /\ spc = "spawn" /\ ~crashed
    /\ errs' = <<>>
    /\ lock' = NoParser
    /\ wg' = Len(parsers)
    /\ task' = [p \in Range(parsers) |-> [IdleTask EXCEPT !.st = "running"]]
    /\ spc' = "wait"
    /\ UNCHANGED <<hdrs, header, handle, tempFiles, acquired, released, parsed,
                   ctxErr, crashed, retParsed, retErr, produced, vvars, ovars>>

\* goroutine: parserParsed, err := p.Find(ctx, path, opener)
TaskFind(p) ==
    /\ ~crashed /\ task[p].st = "running"
    /\ \E r \in FindResults(p, JoinRoot(header.Name)) :
         /\ task' = [task EXCEPT ![p] = [st |-> "found", res |-> r.res, err |-> r.err]]
         /\ produced' = IF r.res = <<>> THEN produced
                        ELSE [Found |-> produced.Found (+) SeqToBag(r.res[1].Found),
                              Partials |-> produced.Partials (+) SeqToBag(r.res[1].Partials)]
    /\ UNCHANGED <<spc, hdrs, header, handle, tempFiles, acquired, released, parsed, errs, wg, lock,
                   ctxErr, crashed, retParsed, retErr, vvars, ovars>>

\* a faulty variant: the goroutine goes on without waiting for the mutex
TaskLockNoWait(p) ==
    /\ ~crashed /\ task[p].st = "found"
    /\ lock' = p
    /\ task' = [task EXCEPT ![p].st = "locked"]
    /\ UNCHANGED <<spc, hdrs, header, handle, tempFiles, acquired, released, parsed, errs, wg,
                   ctxErr, crashed, retParsed, retErr, produced, vvars, ovars>>

\* goroutine: lock.Lock()
TaskLock(p) ==
    /\ ~crashed /\ task[p].st = "found"
    /\ lock = NoParser
    /\ lock' = p
    /\ task' = [task EXCEPT ![p].st = "locked"]
    /\ UNCHANGED <<spc, hdrs, header, handle, tempFiles, acquired, released, parsed, errs, wg,
                   ctxErr, crashed, retParsed, retErr, produced, vvars, ovars>>

\* goroutine: if err != nil { errs = append(errs, err.Error()) }
TaskCollectErr(p) ==
    /\ ~crashed /\ task[p].st = "locked"
    /\ errs' = IF task[p].err # NoErr THEN Append(errs, task[p].err) ELSE errs
    /\ task' = [task EXCEPT ![p].st = "collected"]
    /\ UNCHANGED <<spc, hdrs, header, handle, tempFiles, acquired, released, parsed, wg, lock,
                   ctxErr, crashed, retParsed, retErr, produced, vvars, ovars>>

\* goroutine: parsed.appendParsed(parserParsed). A nil parserParsed is
\* dereferenced: the goroutine panics, its deferred Unlock and Done run, and
\* the panic, which nothing recovers, ends the process.
TaskAppendParsed(p) ==
    /\ ~crashed /\ task[p].st = "collected"
    /\ IF task[p].res = <<>>
       THEN /\ crashed' = TRUE
            /\ task' = [task EXCEPT ![p].st = "panicked"]
            /\ lock' = NoParser
            /\ wg' = wg - 1
            /\ parsed' = parsed
       ELSE /\ parsed' = appendParsed(parsed, task[p].res[1])
            /\ task' = [task EXCEPT ![p].st = "merged"]
            /\ UNCHANGED <<crashed, lock, wg>>
    /\ UNCHANGED <<spc, hdrs, header, handle, tempFiles, acquired, released, errs,
                   ctxErr, retParsed, retErr, produced, vvars, ovars>>

\* goroutine: defer lock.Unlock()
TaskUnlock(p) ==
    /\ ~crashed /\ task[p].st = "merged"
    /\ lock' = NoParser
    /\ task' = [task EXCEPT ![p].st = "unlocked"]
    /\ UNCHANGED <<spc, hdrs, header, handle, tempFiles, acquired, released, parsed, errs, wg,
                   ctxErr, crashed, retParsed, retErr, produced, vvars, ovars>>

\* goroutine: defer wg.Done()
TaskDone(p) ==
    /\ ~crashed /\ task[p].st = "unlocked"
    /\ wg' = wg - 1
    /\ task' = [task EXCEPT ![p].st = "done"]
    /\ UNCHANGED <<spc, hdrs, header, handle, tempFiles, acquired, released, parsed, errs, lock,
                   ctxErr, crashed, retParsed, retErr, produced, vvars, ovars>>

\* a faulty variant: the orchestrator goes on without waiting for the tasks
WaitNoFanIn ==
    /\ spc = "wait" /\ ~crashed
    /\ spc' = "select"
    /\ UNCHANGED <<hdrs, header, handle, tempFiles, acquired, released, parsed, errs, wg, lock, task,
                   ctxErr, crashed, retParsed, retErr, produced, vvars, ovars>>

\* wg.Wait() returns once the counter is zero
Wait ==
    /\ spc = "wait" /\ ~crashed
    /\ wg = 0
    /\ spc' = "select"
    /\ UNCHANGED <<hdrs, header, handle, tempFiles, acquired, released, parsed, errs, wg, lock, task,
                   ctxErr, crashed, retParsed, retErr, produced, vvars, ovars>>

\* a faulty variant: on cancellation the accumulated results are returned with the error
PollCancelKeepsResults ==
    /\ spc = "select" /\ ~crashed
    /\ IF ctxErr # NoErr
       THEN Return(<<parsed>>, ctxErr)
       ELSE spc' = "cleanup" /\ UNCHANGED <<retParsed, retErr>>
    /\ UNCHANGED <<hdrs, header, handle, tempFiles, acquired, released, parsed, errs, wg, lock, task,
                   ctxErr, crashed, produced, vvars, ovars>>

\* select { case <-ctx.Done(): return nil, ctx.Err(); default: }
PollCancel ==
    /\ spc = "select" /\ ~crashed
    /\ IF ctxErr # NoErr
       THEN Return(<<>>, ctxErr)
       ELSE spc' = "cleanup" /\ UNCHANGED <<retParsed, retErr>>
    /\ UNCHANGED <<hdrs, header, handle, tempFiles, acquired, released, parsed, errs, wg, lock, task,
                   ctxErr, crashed, produced, vvars, ovars>>

\* if err := oCleanup(); err != nil { errs = append(errs, err.Error()) }
\* os.Remove of the temporary file can fail; the buffer's clean-up cannot
Cleanup ==
    /\ spc = "cleanup" /\ ~crashed
    /\ released' = Append(released, hdrs)
    /\ \/ /\ tempFiles' = tempFiles \ {hdrs}
          /\ errs' = errs
       \/ /\ handle = "tmp"
          /\ tempFiles' = tempFiles
          /\ errs' = Append(errs, "remove: operation not permitted")
    /\ spc' = "check"
    /\ UNCHANGED <<hdrs, header, handle, acquired, parsed, wg, lock, task,
                   ctxErr, crashed, retParsed, retErr, produced, vvars, ovars>>

\* if len(errs) > 0 { return parsed, fmt.Errorf(...) }; else the next header
CheckErrs ==
    /\ spc = "check" /\ ~crashed
    /\ IF Len(errs) > 0
       THEN Return(<<parsed>>, ParserError(errs))
       ELSE spc' = "next" /\ UNCHANGED <<retParsed, retErr>>
    /\ UNCHANGED <<hdrs, header, handle, tempFiles, acquired, released, parsed, errs, wg, lock, task,
                   ctxErr, crashed, produced, vvars, ovars>>

\* the caller cancels the context, or its deadline passes, at any moment of the scan
Cancel ==
    /\ spc # "returned" /\ ~crashed
    /\ ctxErr = NoErr
    /\ ctxErr' \in {"context canceled", "context deadline exceeded"}
    /\ UNCHANGED <<spc, hdrs, header, handle, tempFiles, acquired, released, parsed, errs, wg, lock, task,
                   crashed, retParsed, retErr, produced, vvars, ovars>>

----------------------------------------------------------------------------
(* internal/certificate: openerForFile, its rseekerOpener and clean-up *)

\* the byte values an entry's content is made of
ContentBytes == {65, 66}

OpenerInit ==
    /\ opc = "start"
    /\ osize = 0
    /\ content = <<>>
    /\ ff = <<>>
    /\ tmp = <<>>
    /\ offsets = <<>>
    /\ readers = <<>>

\* io.Copy(tmp, reader) and io.ReadAll(reader): every byte the reader delivers, in order
ReadAll(reader) == [i \in 1..Len(reader) |-> reader[i]]

\* openerForFile succeeds: the content goes to a temporary file when
\* header.Size is above the limit, to a buffer otherwise
CallOpenerForFile ==
    /\ opc = "start"
    /\ \E size \in {MemoryLimit, MemoryLimit + 1}, c \in SeqsUpTo(ContentBytes, MaxContent) :
         /\ osize' = size
         /\ content' = c
         /\ IF size > MemoryLimit
            THEN tmp' = <<ReadAll(c)>> /\ ff' = ff
            ELSE ff' = <<ReadAll(c)>> /\ tmp' = tmp
    /\ opc' = "opened"
    /\ UNCHANGED <<offsets, readers, vvars, svars>>

\* the bytes behind the readers: the file os.Open opens, or the slice bytes.NewReader wraps
Backing == IF osize > MemoryLimit THEN tmp[1] ELSE ff[1]

\* what opener() hands out: the reader (its number in offsets), the offset
\* its holder has moved it to, and the bytes of the holder's last Read
NewReader(r) == [reader |-> r, at |-> 0, last |-> <<>>]

\* a faulty variant: every opener() call returns the one reader made by the first
OpenerSharesReader ==
    /\ opc = "opened"
    /\ Len(readers) < MaxReaders
    /\ offsets' = IF offsets = <<>> THEN <<0>> ELSE offsets
    /\ readers' = Append(readers, NewReader(1))
    /\ UNCHANGED <<opc, osize, content, ff, tmp, vvars, svars>>

\* opener(): os.Open(tmp.Name()) or bytes.NewReader(ff), a new reader at offset 0
Opener ==
    /\ opc = "opened"
    /\ Len(readers) < MaxReaders
    /\ offsets' = Append(offsets, 0)
    /\ readers' = Append(readers, NewReader(Len(offsets) + 1))
    /\ UNCHANGED <<opc, osize, content, ff, tmp, vvars, svars>>

\* the holder of readers[h] calls Read with a buffer of n bytes
Read(h, n) ==
    /\ opc = "opened"
    /\ LET r == readers[h].reader
           off == offsets[r]
           end == IF off + n > Len(Backing) THEN Len(Backing) ELSE off + n
           got == SubSeq(Backing, off + 1, end)
       IN /\ offsets' = [offsets EXCEPT ![r] = end]
          /\ readers' = [readers EXCEPT ![h] = [reader |-> r, at |-> readers[h].at + Len(got), last |-> got]]
    /\ UNCHANGED <<opc, osize, content, ff, tmp, vvars, svars>>

\* the holder of readers[h] calls Seek(off, io.SeekStart)
Seek(h, off) ==
    /\ opc = "opened"
    /\ offsets' = [offsets EXCEPT ![readers[h].reader] = off]
    /\ readers' = [readers EXCEPT ![h] = [reader |-> readers[h].reader, at |-> off, last |-> <<>>]]
    /\ UNCHANGED <<opc, osize, content, ff, tmp, vvars, svars>>

\* oCleanup(): os.Remove(tmp.Name()) for a temporary file, nothing for a buffer
OCleanup ==
    /\ opc = "opened"
    /\ tmp' = <<>>
    /\ opc' = "released"
    /\ UNCHANGED <<osize, content, ff, offsets, readers, vvars, svars>>

----------------------------------------------------------------------------
(* The specifications *)

Init == ValidateInit /\ ScanInit /\ OpenerInit

Next == CallNewValidator \/ CallValidate \/ CallIsPass

Spec == Init /\ [][Next]_vars

\* one Validator used for two Validate calls
RevalidateNext == CallNewValidator \/ CallValidate \/ CallValidateAgain

RevalidateSpec == Init /\ [][RevalidateNext]_vars

ScanNext ==
    \/ NextEOF \/ NextError \/ NextHeader
    \/ OpenerForFile \/ OpenerForFileFails
    \/ RunParsers
    \/ \E p \in Range(parsers) :
         TaskFind(p) \/ TaskLock(p) \/ TaskCollectErr(p) \/ TaskAppendParsed(p) \/ TaskUnlock(p) \/ TaskDone(p)
    \/ Wait \/ PollCancel \/ Cleanup \/ CheckErrs
    \/ Cancel

ScanSpec == Init /\ [][ScanNext]_vars

OpenerNext ==
    \/ CallOpenerForFile
    \/ Opener
    \/ \E h \in 1..Len(readers) :
         \/ \E n \in 1..MaxContent : Read(h, n)
         \/ \E off \in 0..Len(content) : Seek(h, off)
    \/ OCleanup

OpenerSpec == Init /\ [][OpenerNext]_vars

----------------------------------------------------------------------------
(* What the claims speak of, stated from the policy document and the       *)
(* certificates themselves rather than from the Validator's lookup tables  *)

\* the fingerprints of the policy entries and of the certificates, spelled in upper case
EntryHex == [e \in EntryPool |-> [Sha1 |-> ToUpper(e.Fingerprints.Sha1), Sha256 |-> ToUpper(e.Fingerprints.Sha256)]]

CertHex == [c \in FoundPool |-> [Sha1 |-> ToUpper(EncodeToString(c.FingerprintSha1)),
                                  Sha256 |-> ToUpper(EncodeToString(c.FingerprintSha256))]]

SameSha1(e, cert) == EntryHex[e].Sha1 = CertHex[cert].Sha1

SameSha256(e, cert) == EntryHex[e].Sha256 = CertHex[cert].Sha256

\* the entry's fingerprint (its SHA-256 when it has one, else its SHA-1) is this certificate's
Names(e, cert) ==
    IF e.Fingerprints.Sha256 # <<>> THEN SameSha256(e, cert) ELSE SameSha1(e, cert)

WellFormed(str, size) == Len(str) = 2 * size /\ \A i \in 1..Len(str) : str[i] \in HexChars

\* the fingerprint string by which the entry is keyed does not parse
Malformed(e) ==
    IF e.Fingerprints.Sha256 # <<>> THEN ~WellFormed(e.Fingerprints.Sha256, Sha256Size)
    ELSE ~WellFormed(e.Fingerprints.Sha1, Sha1Size)

BothSet(e) == e.Fingerprints.Sha256 # <<>> /\ e.Fingerprints.Sha1 # <<>>

\* the certificate is the entry's by SHA-1 but not by SHA-256
Sha1Only(e, cert) ==
    /\ BothSet(e)
    /\ SameSha1(e, cert)
    /\ ~SameSha256(e, cert)

Validated == pc \in {"validated", "checked"}

AllEntries == Range(config.Allow) \cup Range(config.Forbid) \cup Range(config.Require)

AllowOrRequire == Range(config.Allow) \cup Range(config.Require)

NoFoundNames(e) == \A i \in 1..Len(founds) : ~Names(e, founds[i])

\* C1: in strict mode a found certificate that an Allow or a Require entry
\* names is never among NotAllowedCertificates.
C1_AllowedNeverNotAllowed ==
    (Validated /\ ~permissiveMode) =>
        \A i \in 1..Len(founds) :
            (\E e \in AllowOrRequire : Names(e, founds[i]))
                => founds[i] \notin Range(result.NotAllowedCertificates)

\* a strict validation where a Require entry (written in upper case, by SHA-1)
\* names one found certificate and another found certificate is not allowed
C1_Witness ==
    /\ Validated /\ ~permissiveMode
    /\ config.Allow = <<>>
    /\ \E i \in 1..Len(founds) : \E e \in Range(config.Require) :
         Names(e, founds[i]) /\ e.Fingerprints.Sha1 # EncodeToString(founds[i].FingerprintSha1)
    /\ result.NotAllowedCertificates # <<>>

\* C2: in both modes every found certificate that a Forbid entry names is in
\* ForbiddenCertificates, with a Forbid entry that names it attached.
C2_ForbiddenAlwaysReported ==
    Validated =>
        \A i \in 1..Len(founds) :
            (\E e \in Range(config.Forbid) : Names(e, founds[i]))
                => \E j \in 1..Len(result.ForbiddenCertificates) :
                      /\ result.ForbiddenCertificates[j].Certificate = founds[i]
                      /\ result.ForbiddenCertificates[j].Entry \in Range(config.Forbid)
                      /\ Names(result.ForbiddenCertificates[j].Entry, founds[i])

\* the same statement for the Validate calls that return no error
C2_ReportedWhenValidateSucceeds == (vErr = NoErr) => C2_ForbiddenAlwaysReported

\* C3: when Validate returns no error, RequiredButAbsent is the Require list
\* without the entries that some found certificate satisfies: an unmatched
\* entry is there once, a matched one not at all.
C3_RequiredButAbsentExact ==
    (Validated /\ vErr = NoErr) =>
        /\ result.RequiredButAbsent = SelectSeq(config.Require, NoFoundNames)
        /\ \A e \in Range(config.Require) :
             (\E i \in 1..Len(founds) : Names(e, founds[i])) => e \notin Range(result.RequiredButAbsent)

\* one Require entry is satisfied and another is absent
C3_Witness ==
    /\ Validated /\ vErr = NoErr
    /\ Len(config.Require) = 2
    /\ Len(result.RequiredButAbsent) = 1
    /\ founds # <<>>

\* C4: a permissive Validator has empty allow-sets and reports no certificate
\* as not allowed.
C4_PermissiveNothingNotAllowed ==
    (pc \in {"built", "validated", "checked"} /\ permissiveMode) =>
        /\ v[1].allowSHA1 = {} /\ v[1].allowSHA256 = {}
        /\ result.NotAllowedCertificates = <<>>

\* a permissive validation of a certificate no entry names, under a policy with an Allow list
C4_Witness ==
    /\ Validated /\ permissiveMode
    /\ config.Allow # <<>>
    /\ \E i \in 1..Len(founds) : \A e \in AllEntries : ~Names(e, founds[i])

\* C5: IsPass is true exactly when the three sequences of the Result are empty.
C5_IsPassIffAllEmpty ==
    (pc = "checked") =>
        (pass <=> (/\ result.NotAllowedCertificates = <<>>
                   /\ result.ForbiddenCertificates = <<>>
                   /\ result.RequiredButAbsent = <<>>))

\* IsPass answered false on a Result whose only finding is an absent required certificate
C5_Witness ==
    /\ pc = "checked" /\ ~pass
    /\ result.NotAllowedCertificates = <<>> /\ result.ForbiddenCertificates = <<>>
    /\ result.RequiredButAbsent # <<>>

ForbiddenBySha256(cert) ==
    \E e \in Range(config.Forbid) :
        e.Fingerprints.Sha256 # <<>> /\ SameSha256(e, cert)

\* C6: strict mode, one found certificate whose SHA-256 is on the Forbid list:
\* it is reported forbidden once; it is also reported not allowed, and the
\* Result does not pass, when no Allow or Require entry names it; with an
\* Allow entry naming it NotAllowedCertificates is empty.
C6_AllowAndForbidIndependent ==
    (Validated /\ ~permissiveMode /\ Len(founds) = 1 /\ ForbiddenBySha256(founds[1])) =>
        /\ Len(result.ForbiddenCertificates) = 1
        /\ (pc = "checked" => ~pass)
        /\ (\A e \in AllowOrRequire : ~Names(e, founds[1]))
              => Len(result.NotAllowedCertificates) = 1
        /\ (\E e \in Range(config.Allow) : Names(e, founds[1]))
              => result.NotAllowedCertificates = <<>>

\* the certificate is on the Forbid list and on the Allow list, and IsPass was asked
C6_Witness ==
    /\ pc = "checked" /\ ~permissiveMode /\ Len(founds) = 1 /\ ForbiddenBySha256(founds[1])
    /\ \E e \in Range(config.Allow) : Names(e, founds[1])
    /\ result.NotAllowedCertificates = <<>>

\* C7: an entry with both fingerprints counts by its SHA-256 alone: a found
\* certificate that is the entry's by SHA-1 only is not allowed by it, is not
\* reported as forbidden by it and does not satisfy it as a requirement.
C7_Sha256Authoritative ==
    Validated =>
        \A e \in AllEntries : \A i \in 1..Len(founds) :
            Sha1Only(e, founds[i]) =>
                /\ (/\ ~permissiveMode
                    /\ e \in AllowOrRequire
                    /\ \A o \in AllowOrRequire : ~Names(o, founds[i]))
                       => founds[i] \in Range(result.NotAllowedCertificates)
                /\ \A j \in 1..Len(result.ForbiddenCertificates) :
                       ~(/\ result.ForbiddenCertificates[j].Certificate = founds[i]
                         /\ result.ForbiddenCertificates[j].Entry = e)
                /\ (e \in Range(config.Require) /\ vErr = NoErr /\ NoFoundNames(e))
                       => e \in Range(result.RequiredButAbsent)

\* a policy that requires an entry with both fingerprints, and a found
\* certificate that is that entry's by SHA-1 only: not allowed, and the entry absent
C7_Witness ==
    /\ Validated /\ ~permissiveMode /\ vErr = NoErr
    /\ config.Forbid = <<>>
    /\ \E e \in Range(config.Require) : \E i \in 1..Len(founds) :
         /\ Sha1Only(e, founds[i])
         /\ founds[i] \in Range(result.NotAllowedCertificates)
         /\ e \in Range(result.RequiredButAbsent)

\* C8: NewValidator rejects, in either mode, every well-shaped policy with an
\* entry whose fingerprint does not parse.
C8_MalformedAlwaysRejected ==
    (pc # "start" /\ IsConfigValid(config) /\ \E e \in AllEntries : Malformed(e)) =>
        (pc = "rejected" /\ v = <<>> /\ nvErr # NoErr)

\* what the code does guarantee: strict mode, and the Forbid list in either mode
C8_RejectedWhenParsed ==
    (pc # "start" /\ IsConfigValid(config)
        /\ \E e \in (IF permissiveMode THEN Range(config.Forbid) ELSE AllEntries) : Malformed(e)) =>
        (pc = "rejected" /\ v = <<>> /\ nvErr # NoErr)

----------------------------------------------------------------------------
(* The scanner's claims *)

\* some parser's Find has returned an error for the current entry
AnyFindError == \E p \in Range(parsers) : task[p].st \notin {"idle", "running"} /\ task[p].err # NoErr

\* some parser's Find has returned an error and no result
AnyNilResult == \E p \in Range(parsers) : task[p].st \notin {"idle", "running"} /\ task[p].res = <<>>

\* the messages, each followed by "; " but the last
RECURSIVE SemicolonJoined(_)
SemicolonJoined(list) ==
    IF list = <<>> THEN ""
    ELSE IF Len(list) = 1 THEN list[1]
    ELSE SemicolonJoined(SubSeq(list, 1, Len(list) - 1)) \o "; " \o list[Len(list)]

\* C9: when a parser returned an error or the release failed for an entry, and
\* the context is not cancelled, FindCertificates returns at that entry with
\* the accumulated results and an error joining all the entry's messages; a
\* scan with a parser error never returns a nil error.
C9_ParserErrorsAbortScan ==
    /\ (AnyFindError /\ ctxErr = NoErr) => ~crashed
    /\ (spc = "returned" /\ ctxErr = NoErr /\ (AnyFindError \/ errs # <<>>)) =>
          /\ retErr = "parser error finding certificates: " \o SemicolonJoined(errs)
          /\ retParsed = <<parsed>>
          /\ \A p \in Range(parsers) : task[p].err # NoErr => task[p].err \in Range(errs)
    /\ (spc = "returned" /\ AnyFindError) => retErr # NoErr

\* the same statement for the scans in which every Find returned a result
C9_AbortWhenResultsNotNil == ~AnyNilResult => C9_ParserErrorsAbortScan

\* C10: once the parser tasks of the entry have all completed with the context
\* cancelled, the next thing FindCertificates does is return nil and the
\* context's error, whatever was accumulated or collected; no header is read.
C10_CancelDiscardsResults ==
    [][ /\ (spc = "wait" /\ wg = 0 /\ ~crashed /\ ctxErr # NoErr)
            => (spc' = "select" /\ hdrs' = hdrs /\ ctxErr' = ctxErr)
        /\ (spc = "select" /\ ctxErr # NoErr)
            => (spc' = "returned" /\ retParsed' = <<>> /\ retErr' = ctxErr /\ hdrs' = hdrs) ]_vars

\* a scan cancelled during its second entry, after a certificate was found in
\* the first and a parser error collected in the second: nil and ctx.Err()
C10_Witness ==
    /\ spc = "returned" /\ ctxErr # NoErr
    /\ retParsed = <<>> /\ retErr = ctxErr
    /\ hdrs = 2 /\ parsed.Found # <<>> /\ errs # <<>>

Count(list, x) == Cardinality({i \in 1..Len(list) : list[i] = x})

\* FindCertificates returned from its poll of the context
ReturnedCancelled == spc = "returned" /\ retParsed = <<>> /\ ctxErr # NoErr /\ retErr = ctxErr

\* C11: when FindCertificates has returned, every entry whose handle was
\* acquired has had its release function invoked exactly once, and no
\* temporary file of such an entry is left.
C11_ReleasedExactlyOnce ==
    (spc = "returned") =>
        \A n \in Range(acquired) : Count(released, n) = 1 /\ n \notin tempFiles

\* what holds on every return path: no entry is released twice, and on the
\* returns other than the cancellation return each acquired entry is released
C11_ReleasedOnceUnlessCancelled ==
    /\ \A n \in Range(acquired) : Count(released, n) <= 1
    /\ (spc = "returned" /\ ~ReturnedCancelled) => \A n \in Range(acquired) : Count(released, n) = 1

\* the errors FindCertificates returns without having looked at parsers or context
HeaderError == "archive/tar: invalid tar header"
OpenerErrors == {"failed to create temporary file: no space left on device",
                 "failed to write image file to temporary file: unexpected EOF",
                 "failed to close temporary file: input/output error",
                 "failed to read image file: unexpected EOF"}

\* C12: a scan that returns with no parser error, no release failure, no
\* cancellation and no failed read returns a nil error; a nil error comes with a
\* non-nil result holding exactly the Found and Partial items the parsers
\* returned, which is empty when no entry was read; a header-read error other
\* than EOF comes with a nil result.
C12_EOFReturnsAllFindings ==
    (spc = "returned") =>
        /\ (errs = <<>> /\ ctxErr = NoErr /\ retErr \notin {HeaderError} \cup OpenerErrors)
               => retErr = NoErr
        /\ (retErr = NoErr) =>
               /\ retParsed # <<>>
               /\ SeqToBag(retParsed[1].Found) = produced.Found
               /\ SeqToBag(retParsed[1].Partials) = produced.Partials
               /\ (hdrs = 0 => retParsed = <<EmptyParsed>>)
        /\ (retErr = HeaderError) => retParsed = <<>>

\* the scan ended at EOF with findings of two entries in its result
C12_Witness ==
    /\ spc = "returned" /\ retErr = NoErr /\ hdrs = 2
    /\ retParsed # <<>>
    /\ \E i, j \in 1..Len(retParsed[1].Found) :
           retParsed[1].Found[i].Location # retParsed[1].Found[j].Location

\* the scan of an archive without entries
C12_EmptyArchive == spc = "returned" /\ hdrs = 0 /\ retErr = NoErr /\ retParsed = <<EmptyParsed>>

\* the scan ended by a header that cannot be read
C12_HeaderErrorSeen == spc = "returned" /\ retErr = HeaderError /\ hdrs > 0

\* the goroutine of parser p has been started and has not yet called wg.Done
TaskActive(p) == task[p].st \notin {"idle", "done"}

\* C13: whenever the orchestrator is anywhere but in wg.Wait (polling the
\* context, releasing the handle, checking errs, reading the next header,
\* opening an entry, starting tasks, or returned), no parser task is active;
\* so the tasks of two entries never overlap, and while a task is active the
\* handle of its entry, the latest acquired one, has not been released.
C13_FanInBeforeEverythingElse ==
    /\ (spc # "wait") => \A p \in Range(parsers) : ~TaskActive(p)
    /\ \A p \in Range(parsers) :
          TaskActive(p) =>
             /\ acquired # <<>> /\ acquired[Len(acquired)] = hdrs
             /\ hdrs \notin Range(released)

\* a task of the second entry is active after the first entry was released
C13_Witness ==
    /\ spc = "wait" /\ released = <<1>> /\ acquired = <<1, 2>>
    /\ \E p \in Range(parsers) : task[p].st = "running"
    /\ \E p \in Range(parsers) : task[p].st = "done"

\* the goroutine of parser p is between lock.Lock() and lock.Unlock()
InCritical(p) == task[p].st \in {"locked", "collected", "merged"}

\* the non-nil errors the Find calls of the current entry returned
TaskErrors ==
    SelectSeq([i \in 1..Len(parsers) |-> task[parsers[i]].err], LAMBDA e : e # NoErr)

\* C14: at most one parser task at a time is between Lock and Unlock, where
\* errs and the accumulator are written, and that task holds the mutex; when
\* wg.Wait has returned the accumulator holds every Found and every Partial
\* the tasks returned, each exactly once, and errs holds every non-nil error
\* a task of the entry returned, each exactly once.
C14_MergesExclusiveNothingLost ==
    /\ \A p, q \in Range(parsers) : (InCritical(p) /\ InCritical(q)) => p = q
    /\ \A p \in Range(parsers) : InCritical(p) => lock = p
    /\ (spc = "select") =>
          /\ SeqToBag(parsed.Found) = produced.Found
          /\ SeqToBag(parsed.Partials) = produced.Partials
          /\ SeqToBag(errs) = SeqToBag(TaskErrors)

\* fan-in of an entry on which both parsers returned an error and a partial,
\* after an entry with a certificate
C14_Witness ==
    /\ spc = "select" /\ hdrs = 2
    /\ Len(errs) = 2 /\ Len(parsed.Partials) >= 2 /\ Len(parsed.Found) >= 1

\* a task waits for the mutex another task holds
C14_Contended ==
    \E p, q \in Range(parsers) : InCritical(p) /\ task[q].st = "found"

C16_NilResultNeverPanics == ~crashed

\* what holds instead: only a nil result panics, and its error was appended
\* to errs before the merge was attempted
C16_PanicOnlyOnNilResult ==
    crashed => \E p \in Range(parsers) :
                  /\ task[p].st = "panicked" /\ task[p].res = <<>>
                  /\ task[p].err \in Range(errs)

\* C17: a Validate call on a Validator whose Require list holds an entry with
\* a fingerprint that does not parse returns an error and the empty Result,
\* whatever the found certificates would have put into it; and Validate
\* returns an error in no other case.
C17_RequireParseFailureEmptyResult ==
    Validated =>
        /\ (\E e \in Range(config.Require) : Malformed(e)) => (vErr # NoErr /\ result = EmptyResult)
        /\ (vErr # NoErr) => (result = EmptyResult /\ \E e \in Range(config.Require) : Malformed(e))

\* Validate failed on a Require entry after it had seen a forbidden certificate
C17_Witness ==
    /\ Validated /\ vErr # NoErr
    /\ \E i \in 1..Len(founds) : IsForbidden(v[1], founds[i]).b

\* C18: on either side of the limit, before the clean-up, every reader that
\* opener() handed out is a reader of its own, stands where its holder alone
\* has moved it (at the start when fresh), returned on its last Read the
\* original bytes at that place, and has the rest of the original content
\* ahead of it.
C18_ReadersIndependentSameBytes ==
    (opc = "opened") =>
        /\ (osize > MemoryLimit) = (tmp # <<>>)
        /\ (osize <= MemoryLimit) = (ff # <<>>)
        /\ \A h \in 1..Len(readers) :
              LET r == readers[h] IN
              /\ offsets[r.reader] = r.at
              /\ r.last = SubSeq(content, r.at - Len(r.last) + 1, r.at)
              /\ SubSeq(Backing, r.at + 1, Len(Backing)) = SubSeq(content, r.at + 1, Len(content))
        /\ \A h, k \in 1..Len(readers) : readers[h].reader = readers[k].reader => h = k

\* above the limit: one reader has read the whole content, of two different
\* bytes, while another one is still at the start
C18_Witness ==
    /\ opc = "opened" /\ osize > MemoryLimit
    /\ Len(content) = 2 /\ content[1] # content[2]
    /\ \E h, k \in 1..Len(readers) :
          /\ readers[h].at = 2 /\ readers[h].last = content
          /\ readers[k].at = 0

\* the same at the limit, from the in-memory buffer
C18_WitnessInMemory ==
    /\ opc = "opened" /\ osize = MemoryLimit
    /\ Len(content) = 2 /\ content[1] # content[2]
    /\ \E h, k \in 1..Len(readers) :
          /\ readers[h].at = 2 /\ readers[h].last = content
          /\ readers[k].at = 0
====
